---- MODULE Spec2Model ----
(***************************************************************************)
(* State-machine model of ConnectionJQueueSdkWeb (src/src/index.ts): the   *)
(* static session state, the single interval timer, the per-socket         *)
(* closures created by setupSocket, the overlay element of the document,   *)
(* the navigation guard and the handlers wired on the Socket.IO channel.   *)
(*                                                                         *)
(* Every handler of the class is an operator from a "world" record (all    *)
(* the mutable state the handler can reach) to the world it leaves behind; *)
(* an action packs the variables into a world, runs the whole handler and  *)
(* unpacks the result.  JavaScript values are encoded so that TLC can      *)
(* compare them: null handles are 0, a null/undefined string is "" or      *)
(* a marker string, an undefined number is -1, a null object is NullObj.    *)
(***************************************************************************)
EXTENDS Integers, Sequences, FiniteSets, TLC

VARIABLES
    state,            \* ConnectionJQueueSdkWeb.state (ConnectionState)
    ttlInterval,      \* ConnectionJQueueSdkWeb.ttlInterval: timer handle, 0 = null
    statusListeners,  \* ConnectionJQueueSdkWeb.statusListeners
    timers,           \* interval timers armed in the event loop: handle -> [kind, interval]
    sockets,          \* sockets returned by io(), each with the closure of its setupSocket call
    dom,              \* overlay elements attached to document.body: element -> content
    styleEls,         \* number of <style> elements injectStyles appended to document.head
    onbeforeunload,   \* TRUE iff window.onbeforeunload holds the SDK's handler
    sessionStorage,   \* [token, connect]: values under the two storage keys ("" = absent)
    reloadPending,    \* window.location.reload() has been requested
    lastOp,           \* observation: the handler that ran last, its input and its outputs
    server,           \* backend's view of the session (environment of the liveness check)
    inflight,         \* requests / responses travelling on the channel (same environment)
    argPosition,      \* input of the getAdjustedPollInterval check
    pollResult        \* result of the getAdjustedPollInterval check, -1 = not yet computed

vars == <<state, ttlInterval, statusListeners, timers, sockets, dom, styleEls,
          onbeforeunload, sessionStorage, reloadPending, lastOp, server, inflight,
          argPosition, pollResult>>

----------------------------------------------------------------------------
(* Bounds of the model *)

MaxSockets == 2       \* init() calls (each creates one socket) per page load
MaxPosition == 6100   \* positions 0..MaxPosition are tried on getAdjustedPollInterval
MaxInflight == 2      \* messages travelling per direction in the liveness check
MaxListeners == 2     \* entries of statusListeners

----------------------------------------------------------------------------
(* Program constants *)

TTL_INTERVAL == 2000
MAX_TTL_INTERVAL == 60000
CHECK_DISCONNECTED_INTERVAL == 30000
STORAGE_TOKEN_KEY == "queue_token"
STORAGE_CONNECT_KEY == "queue_connect_key"
DEFAULT_WS_URL_PROD == "https://api-extra-queue.pressai.kr"

WAITING == 1
ACTIVE == 2
EMPTY == 3
\* the status enum of src/src/types.ts has no EXPIRED member, so the expression
\* OnlineQueueStatus.EXPIRED evaluates to undefined; undefined status is encoded 0
UndefinedStatus == 0
EXPIRED == UndefinedStatus

UndefinedPosition == -1      \* an absent position field
UndefinedUuid == "<undefined>" \* an absent uuid field (the value undefined)

NullObj == [null |-> TRUE]   \* JavaScript null where an object is expected

----------------------------------------------------------------------------
(* Inputs *)

Positions == {0, 150}
Uuids == {"u1", "u2"}

\* payloads the 'online-queue:status' event can carry
ValidPayloads ==
    [uuid : Uuids, position : Positions, status : {WAITING, ACTIVE, EMPTY}]
EmptyObject ==
    [uuid |-> UndefinedUuid, position |-> UndefinedPosition, status |-> UndefinedStatus]
Payloads == ValidPayloads \cup {EmptyObject, NullObj}

\* a payload that is null or lacks uuid or status
InvalidPayload(data) ==
    \/ data = NullObj
    \/ data.uuid = UndefinedUuid
    \/ data.status = UndefinedStatus

ContentKinds == {"default", "function", "static"}
PopupConfigs == [content : ContentKinds, isShowLoadingOnConnect : BOOLEAN]
ApiUrls == {"", "https://api"}
TokenKeys == {STORAGE_TOKEN_KEY}

UndefinedWsUrl == "undefined"   \* init() called without a wsUrl
WsUrls == {UndefinedWsUrl, "", "wss://queue"}

\* every configuration registers customEvents handlers that use the utilities
Configs == [wsUrl : {UndefinedWsUrl}, apiUrl : ApiUrls, popupConfig : PopupConfigs,
            storageTokenKey : TokenKeys]

\* configurations that vary the leave endpoint and the storage key instead of
\* the overlay; option.storageTokenKey may be the empty string, which ?? keeps
SessionConfigs ==
    [wsUrl : {"wss://queue"}, apiUrl : ApiUrls,
     popupConfig : {[content |-> "default", isShowLoadingOnConnect |-> TRUE]},
     storageTokenKey : TokenKeys \cup {""}]

\* every configuration init() can be given
InitConfigs ==
    [wsUrl : WsUrls, apiUrl : ApiUrls, popupConfig : PopupConfigs,
     storageTokenKey : TokenKeys \cup {""}]

\* status listeners the caller registers; a call of Lthrow throws
Listeners == {"L1", "Lthrow"}
ThrowingListeners == {"Lthrow"}

\* JavaScript truthiness of a string-valued field
Truthy(s) == s /= "" /\ s /= UndefinedUuid

\* Storage.setItem(key, value) stores String(value): undefined becomes the
\* string "undefined", a string is stored as it is
StoredString(v) == IF v = UndefinedUuid THEN "undefined" ELSE v

----------------------------------------------------------------------------
(* Observation of one handler run *)

NoOut == [alerts |-> <<>>, warns |-> 0, errors |-> 0, emitted |-> <<>>,
          beacons |-> <<>>, notified |-> <<>>, started |-> 0, cleared |-> 0,
          reloads |-> 0, prompt |-> "", thrown |-> FALSE]

NoOp == [op |-> "none", socket |-> 0, data |-> NullObj, prev |-> NullObj, out |-> NoOut]

----------------------------------------------------------------------------
(* The static state after class initialisation and after cleanup() *)

EmptyState ==
    [socket |-> 0, popupEl |-> 0, isNavigating |-> FALSE, storageTokenKey |-> "",
     storageConnectKey |-> "", queueStatus |-> NullObj, wsUrl |-> "", apiUrl |-> "",
     socketConfig |-> FALSE]

World ==
    [state |-> state, ttlInterval |-> ttlInterval, statusListeners |-> statusListeners,
     timers |-> timers, sockets |-> sockets, dom |-> dom, styleEls |-> styleEls,
     onbeforeunload |-> onbeforeunload, sessionStorage |-> sessionStorage,
     reloadPending |-> reloadPending, out |-> NoOut]

----------------------------------------------------------------------------
(* Helpers of the runtime: timers, elements, console, alert.                *)
(*                                                                          *)
(* A handler operator is written  Only({ e : w \in {w0} }) : the world w0   *)
(* it is given is evaluated once and bound to w, and e is the world it      *)
(* returns.  (An operator argument used several times would otherwise be    *)
(* re-evaluated at each use.)                                               *)

Only(S) == CHOOSE r \in S : TRUE

\* the smallest handle / element id not in use
FreeIn(used) ==
    CHOOSE i \in 1..(Cardinality(used) + 1) : i \notin used /\ \A j \in 1..(i-1) : j \in used

\* setInterval(cb, interval): arms a timer and returns its handle
setInterval(w0, kind, interval) ==
    Only({ [w EXCEPT !.timers = [i \in DOMAIN w.timers \cup {h} |->
                                    IF i = h THEN [kind |-> kind, interval |-> interval]
                                    ELSE w.timers[i]],
                     !.ttlInterval = h,
                     !.out.started = @ + 1]
           : <<w, h>> \in {<<x, FreeIn(DOMAIN x.timers)>> : x \in {w0}} })

log(w0, type) ==
    Only({ CASE type = "warn"  -> [w EXCEPT !.out.warns = @ + 1]
             [] type = "error" -> [w EXCEPT !.out.errors = @ + 1]
             [] OTHER          -> w
           : w \in {w0} })

alert(w, notice) == [w EXCEPT !.out.alerts = Append(@, notice)]

emit(w, s, event, uuid) ==
    [w EXCEPT !.out.emitted = Append(@, [socket |-> s, event |-> event, uuid |-> uuid])]

----------------------------------------------------------------------------
(* ConnectionJQueueSdkWeb: private helpers *)

\* injectStyles: the guard looks for style[data-styles], but the element it
\* appends carries data-jqueue-styles, so the guard never finds it
injectStyles(w) == [w EXCEPT !.styleEls = @ + 1]

removePopup(w0) ==
    Only({ [w EXCEPT !.dom = [e \in DOMAIN w.dom \ {w.state.popupEl} |-> w.dom[e]],
                     !.state.popupEl = 0]
           : w \in {w0} })

createPopupNoRemove(w0, content) ==
    Only({ [w EXCEPT !.dom = [e \in DOMAIN w.dom \cup {div} |->
                                 IF e = div THEN content ELSE w.dom[e]],
                     !.state.popupEl = div]
           : <<w, div>> \in {<<x, FreeIn(DOMAIN x.dom)>> : x \in {w0}} })

createPopup(w0, content) ==
    Only({ [w EXCEPT !.dom = [e \in DOMAIN w.dom \cup {div} |->
                                 IF e = div THEN content ELSE w.dom[e]],
                     !.state.popupEl = div]
           : <<w, div>> \in {<<x, FreeIn(DOMAIN x.dom)>> : x \in {removePopup(w0)}} })

\* toggleNavigation that installs or removes the handler but leaves the flag
toggleNavigationFlagUntouched(w0, block) ==
    Only({ IF w.state.isNavigating = block THEN w
           ELSE [w EXCEPT !.onbeforeunload = block]
           : w \in {w0} })

toggleNavigation(w0, block) ==
    Only({ IF w.state.isNavigating = block THEN w
           ELSE [w EXCEPT !.onbeforeunload = block, !.state.isNavigating = block]
           : w \in {w0} })

\* sendLeaveRequest without the test of apiUrl
sendLeaveRequestNoApiCheck(w0) ==
    Only({ IF w.state.queueStatus = NullObj
               THEN w
           ELSE IF ~Truthy(w.state.queueStatus.uuid)
               THEN w
           ELSE [w EXCEPT !.out.beacons = Append(@, w.state.queueStatus.uuid)]
           : w \in {w0} })

sendLeaveRequest(w0) ==
    Only({ IF ~Truthy(w.state.apiUrl) \/ w.state.queueStatus = NullObj
               THEN w
           ELSE IF ~Truthy(w.state.queueStatus.uuid)
               THEN w
           ELSE [w EXCEPT !.out.beacons = Append(@, w.state.queueStatus.uuid)]
           : w \in {w0} })

\* position / 100 is a floating-point division: (position / 100) * 1000 is the
\* real number position * 10 (exact in doubles over the modelled range), so the
\* product is taken before the division.  An undefined position compares
\* false with >= 100, as its encoding -1 does.
getAdjustedPollIntervalFloored(position) ==
    LET pollTime == IF position >= 100
                    THEN TTL_INTERVAL + (position \div 100) * 1000
                    ELSE TTL_INTERVAL
    IN  IF pollTime > MAX_TTL_INTERVAL THEN MAX_TTL_INTERVAL ELSE pollTime

getAdjustedPollIntervalLowThreshold(position) ==
    LET pollTime == IF position >= 10
                    THEN TTL_INTERVAL + (position * 1000) \div 100
                    ELSE TTL_INTERVAL
    IN  IF pollTime > MAX_TTL_INTERVAL THEN MAX_TTL_INTERVAL ELSE pollTime

\* getAdjustedPollInterval without the Math.min against MAX_TTL_INTERVAL
getAdjustedPollIntervalUncapped(position) ==
    IF position >= 100
    THEN TTL_INTERVAL + (position * 1000) \div 100
    ELSE TTL_INTERVAL

getAdjustedPollInterval(position) ==
    LET pollTime == IF position >= 100
                    THEN TTL_INTERVAL + (position * 1000) \div 100
                    ELSE TTL_INTERVAL
    IN  IF pollTime > MAX_TTL_INTERVAL THEN MAX_TTL_INTERVAL ELSE pollTime

clearInterval(w0) ==
    Only({ IF w.ttlInterval /= 0
               THEN [w EXCEPT !.timers = [i \in DOMAIN w.timers \ {w.ttlInterval} |->
                                             w.timers[i]],
                              !.ttlInterval = 0,
                              !.out.cleared = @ + 1]
               ELSE w
           : w \in {w0} })

reloadPage(w) == [w EXCEPT !.reloadPending = TRUE, !.out.reloads = @ + 1]

\* startStatusEmission without the clearInterval call
startStatusEmissionNoClear(w, interval) ==
    setInterval(w, "online-queue:status", interval)

startStatusEmission(w, interval) ==
    setInterval(clearInterval(w), "online-queue:status", interval)

startCheckDisconnectedEmissionNoClear(w) ==
    setInterval(w, "online-queue:check-disconnected", CHECK_DISCONNECTED_INTERVAL)

startCheckDisconnectedEmission(w) ==
    setInterval(clearInterval(w), "online-queue:check-disconnected",
                CHECK_DISCONNECTED_INTERVAL)

\* the callback startStatusEmission hands to setInterval
statusTick(w0) ==
    Only({ IF w.state.socket /= 0 /\ w.state.socketConfig
               THEN IF w.sockets[w.state.socket].connected
                       THEN emit(w, w.state.socket, "online-queue:status",
                                 IF w.state.queueStatus /= NullObj
                                 THEN IF Truthy(w.state.queueStatus.uuid)
                                      THEN w.state.queueStatus.uuid ELSE ""
                                 ELSE "")
                       ELSE w
               ELSE w
           : w \in {w0} })

\* the callback startCheckDisconnectedEmission hands to setInterval
checkDisconnectedTick(w0) ==
    Only({ IF w.state.socket /= 0 /\ w.state.queueStatus /= NullObj
               THEN IF w.sockets[w.state.socket].connected
                       /\ Truthy(w.state.queueStatus.uuid)
                       THEN emit(w, w.state.socket, "online-queue:check-disconnected",
                                 w.state.queueStatus.uuid)
                       ELSE w
               ELSE w
           : w \in {w0} })

\* index of the first listener of the registry that throws, 0 if none does
FirstThrower(listeners) ==
    IF \E i \in DOMAIN listeners : listeners[i] \in ThrowingListeners
    THEN CHOOSE i \in DOMAIN listeners :
             /\ listeners[i] \in ThrowingListeners
             /\ \A j \in 1..(i-1) : listeners[j] \notin ThrowingListeners
    ELSE 0

\* forEach calls the listeners in order; an exception of one of them ends the
\* loop and leaves updateQueueStatus
updateQueueStatus(w0, data) ==
    Only({ [w EXCEPT !.state.queueStatus = data,
                     !.sessionStorage.token =
                         IF Truthy(w.state.storageTokenKey) THEN StoredString(data.uuid)
                         ELSE @,
                     !.out.notified = @ \o (IF k = 0 THEN w.statusListeners
                                            ELSE SubSeq(w.statusListeners, 1, k)),
                     !.out.thrown = (k /= 0)]
           : <<w, k>> \in {<<x, FirstThrower(x.statusListeners)>> : x \in {w0}} })

\* popupContent computed once, for position 0, whatever the status says
popupContentStale(popupConfig, position) ==
    CASE popupConfig.content = "function" -> [kind |-> "function", position |-> 0]
      [] popupConfig.content = "static"   -> [kind |-> "static", position |-> UndefinedPosition]
      [] OTHER                            -> [kind |-> "default", position |-> 0]

\* the content handleStatusUpdate passes to createPopup
popupContent(popupConfig, position) ==
    CASE popupConfig.content = "function" -> [kind |-> "function", position |-> position]
      [] popupConfig.content = "static"   -> [kind |-> "static", position |-> UndefinedPosition]
      [] OTHER                            -> [kind |-> "default", position |-> position]

\* the WAITING case of handleStatusUpdate, w1 being the world after updateQueueStatus
waitingCase(w1, s, position) ==
    Only({ toggleNavigation(
               createPopup(
                   IF newTtlInterval /= w.sockets[s].currentTtlInterval
                   THEN startStatusEmission(
                            [w EXCEPT !.sockets[s].currentTtlInterval = newTtlInterval],
                            newTtlInterval)
                   ELSE w,
                   popupContent(w.sockets[s], position)),
               TRUE)
           : <<w, newTtlInterval>> \in {<<x, getAdjustedPollInterval(position)>> : x \in {w1}} })

handleStatusUpdate(w, s, data) ==
    IF data = NullObj
        THEN log(w, "warn")
    ELSE
        LET w1 == updateQueueStatus(w, data)
            position == data.position
        IN  CASE w1.out.thrown -> w1   \* the exception of a listener leaves the handler
              [] data.status = ACTIVE ->
                   toggleNavigation(removePopup(startCheckDisconnectedEmission(w1)), FALSE)
              [] data.status = WAITING ->
                   waitingCase(w1, s, position)
              [] data.status = EMPTY ->
                   \* no break after the EMPTY case: it falls through into EXPIRED
                   reloadPage(alert(clearInterval(alert(w1, "empty")), "expired"))
              [] data.status = EXPIRED ->
                   reloadPage(alert(w1, "expired"))
              [] OTHER -> w1

----------------------------------------------------------------------------
(* Socket handlers registered by setupSocket; s is the socket whose closure runs *)

onConnect(w0, s) ==
    Only({ startStatusEmission(removePopup(log(w, "info")), w.sockets[s].currentTtlInterval)
           : w \in {w0} })

onConnectError(w, s) == removePopup(log(w, "error"))

\* the 'disconnect' handler without the reload
onDisconnectNoReload(w0, s) == clearInterval(log(w0, "warn"))

onDisconnect(w0, s) ==
    Only({ IF Truthy(w.state.storageTokenKey) /\ w.sessionStorage.token /= ""
               THEN [w EXCEPT !.reloadPending = TRUE, !.out.reloads = @ + 1]
               ELSE w
           : w \in {clearInterval(log(w0, "warn"))} })

\* the utilities handed to a customEvents handler
customUtility(w, util) ==
    CASE util = "createPopup"       -> createPopup(w, [kind |-> "custom", position |-> UndefinedPosition])
      [] util = "removePopup"       -> removePopup(w)
      [] util = "preventNavigation" -> toggleNavigation(w, TRUE)
      [] OTHER                      -> toggleNavigation(w, FALSE)

Utilities == {"createPopup", "removePopup", "preventNavigation", "allowNavigation"}

\* the callback setupSocket registers for a custom event, when the handler of
\* the configuration throws: nothing catches the exception
customHandlerThrows(w) == [w EXCEPT !.out.thrown = TRUE]

setupSocket(w0, config) ==
    Only({ [w EXCEPT !.sockets = Append(@, [connected |-> FALSE, active |-> TRUE,
                                           currentTtlInterval |-> getAdjustedPollInterval(0),
                                           content |-> config.popupConfig.content]),
                     !.state.socket = Len(w.sockets) + 1,
                     !.sessionStorage.connect =
                         IF Truthy(w.state.storageConnectKey) THEN "connect_key" ELSE @]
           : w \in {w0} })

----------------------------------------------------------------------------
(* Public API *)

addStatusListener(w, listener) == [w EXCEPT !.statusListeners = Append(@, listener)]

removeStatusListener(w, listener) ==
    [w EXCEPT !.statusListeners = SelectSeq(@, LAMBDA l : l /= listener)]

init(w0, config) ==
    Only({ setupSocket(
               IF config.popupConfig.isShowLoadingOnConnect
               THEN createPopup(w, [kind |-> "loading", position |-> UndefinedPosition])
               ELSE w,
               config)
           : w \in {injectStyles([w0 EXCEPT !.state.storageTokenKey = config.storageTokenKey,
                                           !.state.storageConnectKey = STORAGE_CONNECT_KEY,
                                           !.state.wsUrl =
                                               IF config.wsUrl = UndefinedWsUrl
                                               THEN DEFAULT_WS_URL_PROD ELSE config.wsUrl,
                                           !.state.apiUrl = config.apiUrl,
                                           !.state.socketConfig = TRUE])} })

\* cleanup() without the reset of the listener registry
\* init() when io() throws inside setupSocket: the catch block logs, removes the
\* overlay and throws the error again, so the promise init() returned rejects
initIoThrows(w0, config) ==
    Only({ [removePopup(log(
                IF config.popupConfig.isShowLoadingOnConnect
                THEN createPopup(w, [kind |-> "loading", position |-> UndefinedPosition])
                ELSE w, "error"))
            EXCEPT !.out.thrown = TRUE]
           : w \in {injectStyles([w0 EXCEPT !.state.storageTokenKey = config.storageTokenKey,
                                           !.state.storageConnectKey = STORAGE_CONNECT_KEY,
                                           !.state.wsUrl =
                                               IF config.wsUrl = UndefinedWsUrl
                                               THEN DEFAULT_WS_URL_PROD ELSE config.wsUrl,
                                           !.state.apiUrl = config.apiUrl,
                                           !.state.socketConfig = TRUE])} })

cleanupKeepListeners(w0) ==
    Only({ [toggleNavigation(removePopup(clearInterval(
                [w EXCEPT !.sessionStorage.token =
                              IF Truthy(w.state.storageTokenKey) THEN "" ELSE @,
                          !.sessionStorage.connect =
                              IF Truthy(w.state.storageConnectKey) THEN "" ELSE @])), FALSE)
               EXCEPT !.state = EmptyState]
           : w \in {w0} })

cleanup(w0) ==
    Only({ [toggleNavigation(removePopup(clearInterval(
                [w EXCEPT !.sessionStorage.token =
                              IF Truthy(w.state.storageTokenKey) THEN "" ELSE @,
                          !.sessionStorage.connect =
                              IF Truthy(w.state.storageConnectKey) THEN "" ELSE @])), FALSE)
               EXCEPT !.state = EmptyState, !.statusListeners = <<>>]
           : w \in {w0} })

\* socket.disconnect() of socket.io-client: a connected socket fires its
\* 'disconnect' handlers synchronously and does not reconnect
socketDisconnect(w0, s) ==
    Only({ IF s = 0 THEN w
           ELSE IF w.sockets[s].connected
                THEN onDisconnect([w EXCEPT !.sockets[s].connected = FALSE,
                                            !.sockets[s].active = FALSE], s)
                ELSE [w EXCEPT !.sockets[s].active = FALSE]
           : w \in {w0} })

\* disconnect() with the reset moved in front of the leave notification
disconnectResetFirst(w0) ==
    Only({ IF w.state.socket /= 0 /\ w.state.queueStatus /= NullObj
               THEN IF w.sockets[w.state.socket].connected /\ Truthy(w.state.queueStatus.uuid)
                    THEN sendLeaveRequest(w) ELSE w
               ELSE w
           : w \in {cleanup(socketDisconnect(w0, w0.state.socket))} })

\* disconnect() that sends the leave notification without looking at the session
disconnectLeaveUnguarded(w0) ==
    Only({ cleanup(socketDisconnect(
               [w EXCEPT !.out.beacons =
                             Append(@, IF w.state.queueStatus = NullObj THEN UndefinedUuid
                                       ELSE w.state.queueStatus.uuid)],
               w.state.socket))
           : w \in {w0} })

disconnect(w0) ==
    Only({ cleanup(socketDisconnect(
               IF w.state.socket /= 0 /\ w.state.queueStatus /= NullObj
               THEN IF w.sockets[w.state.socket].connected /\ Truthy(w.state.queueStatus.uuid)
                    THEN sendLeaveRequest(w) ELSE w
               ELSE w,
               w.state.socket))
           : w \in {w0} })

\* an onbeforeunload handler that only asks for confirmation
beforeUnloadHandlerNoLeave(w0) ==
    [w0 EXCEPT !.out.prompt = "Navigation is currently blocked."]

\* window.onbeforeunload as installed by toggleNavigation(true); the string it
\* returns is recorded as the prompt
beforeUnloadHandler(w0) ==
    Only({ [(IF w.state.queueStatus /= NullObj
                THEN IF Truthy(w.state.queueStatus.uuid) /\ Truthy(w.state.apiUrl)
                        THEN sendLeaveRequest(w) ELSE w
                ELSE w)
            EXCEPT !.out.prompt = "Navigation is currently blocked."]
           : w \in {w0} })

----------------------------------------------------------------------------
(* Actions: one per handler.  Run installs the world a handler left behind. *)

Run(w0, op, s, data) ==
    \E w \in {w0} :
        /\ state' = w.state
        /\ ttlInterval' = w.ttlInterval
        /\ statusListeners' = w.statusListeners
        /\ timers' = w.timers
        /\ sockets' = w.sockets
        /\ dom' = w.dom
        /\ styleEls' = w.styleEls
        /\ onbeforeunload' = w.onbeforeunload
        /\ sessionStorage' = w.sessionStorage
        /\ reloadPending' = w.reloadPending
        /\ lastOp' = [op |-> op, socket |-> s, data |-> data, prev |-> state.queueStatus,
                      out |-> w.out]

Env == <<server, inflight>>
Calc == <<argPosition, pollResult>>

PageInit ==
    /\ state = EmptyState
    /\ ttlInterval = 0
    /\ statusListeners = <<>>
    /\ timers = <<>>
    /\ sockets = <<>>
    /\ dom = <<>>
    /\ styleEls = 0
    /\ onbeforeunload = FALSE
    /\ reloadPending = FALSE
    /\ lastOp = NoOp

Init ==
    /\ PageInit
    /\ sessionStorage = [token |-> "", connect |-> ""]
    /\ server = [status |-> WAITING, demoted |-> 0]
    /\ inflight = [requests |-> 0, responses |-> <<>>]
    /\ argPosition = 0
    /\ pollResult = -1

\* the page has not been torn down by a requested reload
Alive == ~reloadPending

CallInit(config) ==
    /\ Alive
    /\ Len(sockets) < MaxSockets
    /\ Run(init(World, config), "init", Len(sockets) + 1, config)
    /\ UNCHANGED <<Env, Calc>>

SocketConnect(s) ==
    /\ Alive
    /\ sockets[s].active /\ ~sockets[s].connected
    /\ Run(onConnect([World EXCEPT !.sockets[s].connected = TRUE], s), "connect", s, NullObj)
    /\ UNCHANGED <<Env, Calc>>

SocketConnectError(s) ==
    /\ Alive
    /\ sockets[s].active /\ ~sockets[s].connected
    /\ Run(onConnectError(World, s), "connect_error", s, NullObj)
    /\ UNCHANGED <<Env, Calc>>

\* the transport drops the connection; socket.io will try to reconnect
SocketDisconnect(s) ==
    /\ Alive
    /\ sockets[s].connected
    /\ Run(onDisconnect([World EXCEPT !.sockets[s].connected = FALSE], s), "disconnect", s, NullObj)
    /\ UNCHANGED <<Env, Calc>>

OnStatus(s, data) ==
    /\ Alive
    /\ sockets[s].connected
    /\ Run(handleStatusUpdate(World, s, data), "status", s, data)
    /\ UNCHANGED <<Env, Calc>>

OnCustomEvent(s, util) ==
    /\ Alive
    /\ sockets[s].connected
    /\ Run(customUtility(World, util), util, s, NullObj)
    /\ UNCHANGED <<Env, Calc>>

TimerTick(h) ==
    /\ Alive
    /\ Run(IF timers[h].kind = "online-queue:status"
           THEN statusTick(World) ELSE checkDisconnectedTick(World),
           "tick", h, NullObj)
    /\ UNCHANGED <<Env, Calc>>

\* the handle init() returned is called
CallDisconnect ==
    /\ Alive
    /\ Len(sockets) > 0
    /\ Run(disconnect(World), "disconnectCall", state.socket, NullObj)
    /\ UNCHANGED <<Env, Calc>>

\* the requested reload takes place: the beforeunload handler runs if installed,
\* the page is torn down and loaded afresh; sessionStorage survives
PageReload ==
    /\ reloadPending
    /\ LET w == IF onbeforeunload THEN beforeUnloadHandler(World) ELSE World
       IN  /\ state' = EmptyState
           /\ ttlInterval' = 0
           /\ statusListeners' = <<>>
           /\ timers' = <<>>
           /\ sockets' = <<>>
           /\ dom' = <<>>
           /\ styleEls' = 0
           /\ onbeforeunload' = FALSE
           /\ reloadPending' = FALSE
           /\ sessionStorage' = w.sessionStorage
           /\ lastOp' = [NoOp EXCEPT !.op = "reload", !.prev = state.queueStatus,
                                     !.out = w.out]
    /\ UNCHANGED <<Env, Calc>>

Next ==
    \/ \E config \in Configs : CallInit(config)
    \/ \E s \in DOMAIN sockets : SocketConnect(s)
    \/ \E s \in DOMAIN sockets : SocketConnectError(s)
    \/ \E s \in DOMAIN sockets : SocketDisconnect(s)
    \/ \E s \in DOMAIN sockets, data \in Payloads : OnStatus(s, data)
    \/ \E s \in DOMAIN sockets, util \in Utilities : OnCustomEvent(s, util)
    \/ \E h \in DOMAIN timers : TimerTick(h)
    \/ CallDisconnect
    \/ PageReload

Spec == Init /\ [][Next]_vars

----------------------------------------------------------------------------
(* One session per page load: a single init() per load, drawn from the      *)
(* configurations that vary the leave endpoint and the storage key, a       *)
(* caller that registers and removes status listeners, of which one throws, *)
(* and a customEvents handler that throws.                                  *)

SessionCallInit(config) ==
    /\ Alive
    /\ Len(sockets) = 0
    /\ Run(init(World, config), "init", 1, config)
    /\ UNCHANGED <<Env, Calc>>

\* the caller registers each of its listeners once and removes what it registered
Registered(listener) == \E i \in DOMAIN statusListeners : statusListeners[i] = listener

AddStatusListener(listener) ==
    /\ Alive
    /\ Len(statusListeners) < MaxListeners
    /\ ~Registered(listener)
    /\ Run(addStatusListener(World, listener), "addStatusListener", 0,
           [listener |-> listener])
    /\ UNCHANGED <<Env, Calc>>

RemoveStatusListener(listener) ==
    /\ Alive
    /\ Registered(listener)
    /\ Run(removeStatusListener(World, listener), "removeStatusListener", 0,
           [listener |-> listener])
    /\ UNCHANGED <<Env, Calc>>

\* a custom event arrives and the handler configured for it throws
OnCustomEventThrows(s) ==
    /\ Alive
    /\ sockets[s].connected
    /\ Run(customHandlerThrows(World), "customEvent", s, NullObj)
    /\ UNCHANGED <<Env, Calc>>

SessionNext ==
    \/ \E config \in SessionConfigs : SessionCallInit(config)
    \/ \E listener \in Listeners : AddStatusListener(listener)
    \/ \E listener \in Listeners : RemoveStatusListener(listener)
    \/ \E s \in DOMAIN sockets : SocketConnect(s)
    \/ \E s \in DOMAIN sockets : SocketConnectError(s)
    \/ \E s \in DOMAIN sockets : SocketDisconnect(s)
    \/ \E s \in DOMAIN sockets, data \in Payloads : OnStatus(s, data)
    \/ \E s \in DOMAIN sockets : OnCustomEventThrows(s)
    \/ \E h \in DOMAIN timers : TimerTick(h)
    \/ CallDisconnect
    \/ PageReload

SessionSpec == Init /\ [][SessionNext]_vars

----------------------------------------------------------------------------
(* init() on its own: every configuration, io() succeeding or throwing,     *)
(* followed by the connection of the socket and by disconnect().            *)

InitCall(config) ==
    /\ Alive
    /\ Len(sockets) < MaxSockets
    /\ Run(init(World, config), "init", Len(sockets) + 1, config)
    /\ UNCHANGED <<Env, Calc>>

\* an init() call during which io() throws; styleEls counts the init() calls of
\* the page load, which MaxSockets bounds
InitThrows(config) ==
    /\ Alive
    /\ styleEls < MaxSockets
    /\ Run(initIoThrows(World, config), "init", 0, config)
    /\ UNCHANGED <<Env, Calc>>

InitNext ==
    \/ \E config \in InitConfigs : InitCall(config)
    \/ \E config \in InitConfigs : InitThrows(config)
    \/ \E s \in DOMAIN sockets : SocketConnect(s)
    \/ \E s \in DOMAIN sockets : SocketConnectError(s)
    \/ CallDisconnect

InitSpec == Init /\ [][InitNext]_vars

----------------------------------------------------------------------------
(* getAdjustedPollInterval on its own: Init draws the position, the action *)
(* applies the function.                                                   *)

IntervalInit ==
    /\ PageInit
    /\ sessionStorage = [token |-> "", connect |-> ""]
    /\ server = [status |-> WAITING, demoted |-> 0]
    /\ inflight = [requests |-> 0, responses |-> <<>>]
    /\ argPosition \in 0..MaxPosition
    /\ pollResult = -1

ComputeInterval ==
    /\ pollResult = -1
    /\ pollResult' = getAdjustedPollInterval(argPosition)
    /\ UNCHANGED <<state, ttlInterval, statusListeners, timers, sockets, dom, styleEls,
                   onbeforeunload, sessionStorage, reloadPending, lastOp, Env, argPosition>>

IntervalNext == ComputeInterval

IntervalSpec == IntervalInit /\ [][IntervalNext]_vars

----------------------------------------------------------------------------
(* The release loop with a backend: one init(), a socket that stays         *)
(* connected, a backend that answers every online-queue:status request with *)
(* its current view of the session and that admits the session.  The        *)
(* backend may put an admitted session back to WAITING MaxDemotions times.  *)

MaxDemotions == 1

LiveCallInit(config) ==
    /\ Len(sockets) = 0
    /\ Run(init(World, config), "init", 1, config)
    /\ UNCHANGED <<Env, Calc>>

LiveConnect(s) ==
    /\ sockets[s].active /\ ~sockets[s].connected
    /\ Run(onConnect([World EXCEPT !.sockets[s].connected = TRUE], s), "connect", s, NullObj)
    /\ UNCHANGED <<Env, Calc>>

\* a timer tick; an emitted online-queue:status travels to the backend
LiveTick(h) ==
    /\ inflight.requests < MaxInflight
    /\ LET w == IF timers[h].kind = "online-queue:status"
                THEN statusTick(World) ELSE checkDisconnectedTick(World)
           sent == Cardinality({i \in DOMAIN w.out.emitted :
                                   w.out.emitted[i].event = "online-queue:status"})
       IN  /\ Run(w, "tick", h, NullObj)
           /\ inflight' = [inflight EXCEPT !.requests = @ + sent]
    /\ UNCHANGED <<server, Calc>>

ServerReply(position) ==
    /\ inflight.requests > 0
    /\ Len(inflight.responses) < MaxInflight
    /\ server.status = ACTIVE => position = 0
    /\ inflight' = [requests |-> inflight.requests - 1,
                    responses |-> Append(inflight.responses,
                                         [uuid |-> "u1", position |-> position,
                                          status |-> server.status])]
    /\ UNCHANGED <<state, ttlInterval, statusListeners, timers, sockets, dom, styleEls,
                   onbeforeunload, sessionStorage, reloadPending, lastOp, server, Calc>>

ServerAdmit ==
    /\ server.status = WAITING
    /\ server' = [server EXCEPT !.status = ACTIVE]
    /\ UNCHANGED <<state, ttlInterval, statusListeners, timers, sockets, dom, styleEls,
                   onbeforeunload, sessionStorage, reloadPending, lastOp, inflight, Calc>>

ServerDemote ==
    /\ server.status = ACTIVE
    /\ server.demoted < MaxDemotions
    /\ server' = [status |-> WAITING, demoted |-> server.demoted + 1]
    /\ UNCHANGED <<state, ttlInterval, statusListeners, timers, sockets, dom, styleEls,
                   onbeforeunload, sessionStorage, reloadPending, lastOp, inflight, Calc>>

\* the socket delivers the oldest response to the 'online-queue:status' handler
LiveDeliver(s) ==
    /\ sockets[s].connected
    /\ inflight.responses /= <<>>
    /\ Run(handleStatusUpdate(World, s, Head(inflight.responses)), "status", s,
           Head(inflight.responses))
    /\ inflight' = [inflight EXCEPT !.responses = Tail(@)]
    /\ UNCHANGED <<server, Calc>>

LiveNext ==
    \/ \E config \in Configs : LiveCallInit(config)
    \/ \E s \in DOMAIN sockets : LiveConnect(s)
    \/ \E h \in DOMAIN timers : LiveTick(h)
    \/ \E position \in Positions : ServerReply(position)
    \/ ServerAdmit
    \/ ServerDemote
    \/ \E s \in DOMAIN sockets : LiveDeliver(s)

\* setInterval keeps firing, the channel keeps delivering, the backend keeps
\* answering and ends up admitting the session
LiveSpec ==
    /\ Init
    /\ [][LiveNext]_vars
    /\ WF_vars(\E config \in Configs : LiveCallInit(config))
    /\ WF_vars(\E s \in DOMAIN sockets : LiveConnect(s))
    /\ WF_vars(\E h \in DOMAIN timers : LiveTick(h))
    /\ WF_vars(\E position \in Positions : ServerReply(position))
    /\ WF_vars(ServerAdmit)
    /\ WF_vars(\E s \in DOMAIN sockets : LiveDeliver(s))

----------------------------------------------------------------------------
(* Delivery out of order: the backend produces numbered status responses    *)
(* for the session and the channel delivers the responses in flight in any  *)
(* order.  The number is not part of the payload (StatusResponse has uuid,  *)
(* position and status only); inflight.newest remembers the response with   *)
(* the highest number delivered so far.                                     *)

MaxProduced == 2

ReorderInit ==
    /\ PageInit
    /\ sessionStorage = [token |-> "", connect |-> ""]
    /\ server = [status |-> WAITING, demoted |-> 0]
    /\ inflight = [requests |-> 0, responses |-> <<>>, produced |-> 0,
                   newest |-> [seq |-> 0, payload |-> NullObj]]
    /\ argPosition = 0
    /\ pollResult = -1

ServerProduce(status, position) ==
    /\ inflight.produced < MaxProduced
    /\ status = ACTIVE => position = 0
    /\ inflight' = [inflight EXCEPT
                        !.produced = @ + 1,
                        !.responses = Append(@, [seq |-> inflight.produced + 1,
                                                 payload |-> [uuid |-> "u1",
                                                              position |-> position,
                                                              status |-> status]])]
    /\ server' = [server EXCEPT !.status = status]
    /\ UNCHANGED <<state, ttlInterval, statusListeners, timers, sockets, dom, styleEls,
                   onbeforeunload, sessionStorage, reloadPending, lastOp, Calc>>

\* the 'online-queue:status' handler receives any of the responses in flight
DeliverAny(s, i) ==
    /\ sockets[s].connected
    /\ Run(handleStatusUpdate(World, s, inflight.responses[i].payload), "status", s,
           inflight.responses[i].payload)
    /\ inflight' = [inflight EXCEPT
                        !.responses = SubSeq(@, 1, i - 1) \o SubSeq(@, i + 1, Len(@)),
                        !.newest = IF inflight.responses[i].seq > @.seq
                                   THEN inflight.responses[i] ELSE @]
    /\ UNCHANGED <<server, Calc>>

ReorderNext ==
    \/ \E config \in Configs : LiveCallInit(config)
    \/ \E s \in DOMAIN sockets : LiveConnect(s)
    \/ \E status \in {WAITING, ACTIVE}, position \in Positions : ServerProduce(status, position)
    \/ \E s \in DOMAIN sockets, i \in DOMAIN inflight.responses : DeliverAny(s, i)

ReorderSpec == ReorderInit /\ [][ReorderNext]_vars

----------------------------------------------------------------------------
(* Vocabulary of the claims *)

StatusOf(q) == IF q = NullObj THEN -1 ELSE q.status
PositionOf(q) == IF q = NullObj THEN UndefinedPosition ELSE q.position

\* the last handler run applied a status payload with this status
Applied(status) == lastOp.op = "status" /\ StatusOf(lastOp.data) = status

OverlayExists == state.popupEl /= 0 /\ state.popupEl \in DOMAIN dom
NoOverlay == dom = <<>> /\ state.popupEl = 0
GuardEngaged == state.isNavigating /\ onbeforeunload
GuardReleased == ~state.isNavigating /\ ~onbeforeunload

TimersOfKind(kind) == {h \in DOMAIN timers : timers[h].kind = kind}

----------------------------------------------------------------------------
(* C1: when a WAITING status is applied while the current status is ACTIVE, *)
(* then on return the check-disconnected heartbeat is canceled, the         *)
(* online-queue:status timer runs at the interval of the new position, the  *)
(* overlay exists and the navigation guard is engaged.                      *)
C1_ActiveToWaiting ==
    (Applied(WAITING) /\ StatusOf(lastOp.prev) = ACTIVE) =>
        /\ TimersOfKind("online-queue:check-disconnected") = {}
        /\ \E h \in TimersOfKind("online-queue:status") :
               timers[h].interval = getAdjustedPollInterval(lastOp.data.position)
        /\ OverlayExists
        /\ GuardEngaged

(* C2: when an ACTIVE status is applied while the current status is WAITING, *)
(* then on return the overlay is removed, the navigation guard is released,  *)
(* no online-queue:status timer is armed and exactly one timer, the          *)
(* heartbeat at CHECK_DISCONNECTED_INTERVAL, is armed.                       *)
C2_WaitingToActive ==
    (Applied(ACTIVE) /\ StatusOf(lastOp.prev) = WAITING) =>
        /\ NoOverlay
        /\ GuardReleased
        /\ TimersOfKind("online-queue:status") = {}
        /\ Cardinality(DOMAIN timers) = 1
        /\ ttlInterval \in DOMAIN timers
        /\ timers[ttlInterval] = [kind |-> "online-queue:check-disconnected",
                                  interval |-> CHECK_DISCONNECTED_INTERVAL]

\* an ACTIVE status arrived while WAITING with the re-announce timer running,
\* and that timer was canceled by the handler
C2_Witness ==
    /\ Applied(ACTIVE) /\ StatusOf(lastOp.prev) = WAITING
    /\ lastOp.out.cleared = 1 /\ lastOp.out.started = 1
    /\ Cardinality(DOMAIN timers) = 1

(* C3: with the socket connected, fair timer ticks and a backend that        *)
(* answers every online-queue:status request and admits the session, a       *)
(* client that is WAITING with overlay and guard eventually has the overlay  *)
(* removed and the guard released.                                           *)
C3_EventuallyReleased ==
    (StatusOf(state.queueStatus) = WAITING /\ OverlayExists /\ GuardEngaged)
        ~> (NoOverlay /\ GuardReleased)

(* C4: applying an EMPTY status shows exactly one notice and nothing else:  *)
(* no second notice and no page reload.                                     *)
C4_EmptySingleNotice ==
    Applied(EMPTY) =>
        /\ Len(lastOp.out.alerts) = 1
        /\ lastOp.out.reloads = 0

(* C5: EMPTY is terminal: once an EMPTY status is the current status,       *)
(* whatever the status before it, no timer is armed, no overlay is present, *)
(* the guard is not engaged, no reload restarts the session and nothing is  *)
(* sent to the backend.                                                     *)
C5_EmptyTerminal ==
    StatusOf(state.queueStatus) = EMPTY =>
        /\ timers = <<>>
        /\ dom = <<>>
        /\ GuardReleased
        /\ ~reloadPending
        /\ lastOp.out.emitted = <<>>
        /\ lastOp.out.beacons = <<>>

(* C6: a status payload that is null or lacks uuid or status leaves the      *)
(* current status, the persisted token, the overlay, the guard and the timer *)
(* unchanged, notifies no listener, triggers no reload and emits exactly one *)
(* warning.                                                                  *)
C6_InvalidPayloadIgnored ==
    [][(lastOp'.op = "status" /\ InvalidPayload(lastOp'.data)) =>
          /\ state' = state
          /\ sessionStorage' = sessionStorage
          /\ dom' = dom
          /\ onbeforeunload' = onbeforeunload
          /\ timers' = timers /\ ttlInterval' = ttlInterval
          /\ lastOp'.out.notified = <<>>
          /\ lastOp'.out.alerts = <<>>
          /\ lastOp'.out.reloads = 0 /\ reloadPending' = reloadPending
          /\ lastOp'.out.warns = 1]_vars

Calculated == pollResult /= -1
Capped(ms) == IF ms > MAX_TTL_INTERVAL THEN MAX_TTL_INTERVAL ELSE ms

(* C7 as claimed: for every position p >= 100 the interval is               *)
(* TTL_INTERVAL + floor(p/100)*1000, capped at MAX_TTL_INTERVAL.            *)
C7_FlooredInterval ==
    (Calculated /\ argPosition >= 100) =>
        pollResult = Capped(TTL_INTERVAL + (argPosition \div 100) * 1000)

(* C7 as amended: for every position p >= 100 the interval is               *)
(* TTL_INTERVAL + (p/100)*1000 with the quotient not floored, that is 10 ms *)
(* per position, capped at MAX_TTL_INTERVAL.                                *)
C7_UnflooredInterval ==
    (Calculated /\ argPosition >= 100) =>
        pollResult = Capped(TTL_INTERVAL + 10 * argPosition)

\* position 150 was computed: 3500 ms, where the floored formula gives 3000
C7_Witness == Calculated /\ argPosition = 150 /\ pollResult = 3500

(* C8: for every position p in 0..99 the interval is TTL_INTERVAL (2000 ms). *)
C8_BaseIntervalBelow100 ==
    (Calculated /\ argPosition \in 0..99) =>
        pollResult = TTL_INTERVAL /\ pollResult = 2000

C8_Witness == Calculated /\ argPosition = 99 /\ pollResult = 2000

(* C9: when two consecutive WAITING statuses have positions on opposite     *)
(* sides of 100, the re-announce timer is restarted exactly once at the new *)
(* interval and two timers are never armed; a WAITING status whose interval *)
(* equals that of the running re-announce timer does not restart it.        *)
C9_RestartOnBoundary ==
    [][(lastOp'.op = "status" /\ StatusOf(lastOp'.data) = WAITING) =>
          LET newInterval == getAdjustedPollInterval(lastOp'.data.position)
          IN  /\ (/\ StatusOf(state.queueStatus) = WAITING
                  /\ (state.queueStatus.position < 100) /= (lastOp'.data.position < 100))
                 => /\ lastOp'.out.started = 1
                    /\ Cardinality(DOMAIN timers') = 1
                    /\ \A h \in DOMAIN timers' :
                          timers'[h] = [kind |-> "online-queue:status",
                                        interval |-> newInterval]
              /\ (\E h \in TimersOfKind("online-queue:status") :
                      timers[h].interval = newInterval)
                 => /\ lastOp'.out.started = 0
                    /\ timers' = timers]_vars

(* C10: in every reachable state the document holds at most one overlay     *)
(* element, the one state.popupEl points at; applying a WAITING status      *)
(* leaves exactly one overlay, showing the content of that status.          *)
C10_AtMostOneOverlay ==
    /\ Cardinality(DOMAIN dom) <= 1
    /\ DOMAIN dom \subseteq {state.popupEl}
    /\ Applied(WAITING) =>
          /\ DOMAIN dom = {state.popupEl}
          /\ dom[state.popupEl] = popupContent(sockets[lastOp.socket], lastOp.data.position)

\* a second WAITING status with another position was applied on top of the
\* overlay of the first
C10_Witness ==
    /\ Applied(WAITING) /\ StatusOf(lastOp.prev) = WAITING
    /\ PositionOf(lastOp.prev) /= lastOp.data.position
    /\ Cardinality(DOMAIN dom) = 1
    /\ dom[state.popupEl].position = lastOp.data.position

----------------------------------------------------------------------------
(* Vocabulary of the disconnect claims *)

HasUuid(q) == q /= NullObj /\ Truthy(q.uuid)

\* the step is a call of the disconnect() handle
DisconnectCalled == lastOp'.op = "disconnectCall"

\* the state cleanup() leaves behind
TornDown ==
    /\ state = EmptyState
    /\ ttlInterval = 0 /\ timers = <<>>
    /\ dom = <<>>
    /\ ~onbeforeunload
    /\ statusListeners = <<>>

(* C11: whenever a current status with a uuid exists and apiUrl is          *)
(* configured, whatever the connection state of the socket, a call of       *)
(* disconnect() sends a leave notification for that uuid.                   *)
C11_LeaveOnEveryDisconnect ==
    [][(DisconnectCalled /\ HasUuid(state.queueStatus) /\ Truthy(state.apiUrl)) =>
          \E i \in DOMAIN lastOp'.out.beacons :
              lastOp'.out.beacons[i] = state.queueStatus.uuid]_vars

\* the socket disconnect() is about to close is connected
SocketConnected == state.socket /= 0 /\ sockets[state.socket].connected

(* C12: within disconnect() the leave notification is issued before the     *)
(* session is reset: a notification that is sent carries the uuid that was  *)
(* current when disconnect() was called, and when the call is made with a   *)
(* connected socket, a uuid and an apiUrl, exactly that notification is     *)
(* sent although the call ends with the status reset to null.               *)
C12_LeaveBeforeReset ==
    [][DisconnectCalled =>
          /\ lastOp'.out.beacons /= <<>> =>
                 /\ HasUuid(state.queueStatus)
                 /\ \A i \in DOMAIN lastOp'.out.beacons :
                        lastOp'.out.beacons[i] = state.queueStatus.uuid
          /\ (SocketConnected /\ HasUuid(state.queueStatus) /\ Truthy(state.apiUrl)) =>
                 /\ lastOp'.out.beacons = <<state.queueStatus.uuid>>
                 /\ state'.queueStatus = NullObj]_vars

\* disconnect() was called with status uuid "u2", sent the leave notification
\* for "u2" and reset the status
C12_Witness ==
    /\ lastOp.op = "disconnectCall"
    /\ HasUuid(lastOp.prev) /\ lastOp.prev.uuid = "u2"
    /\ lastOp.out.beacons = <<"u2">>
    /\ state.queueStatus = NullObj

(* C13: when disconnect() returns every session field is in its empty form: *)
(* queueStatus, socket, the storage key names, the URLs and socketConfig    *)
(* are null, the timer handle is null and no timer is armed, no overlay     *)
(* exists, window.onbeforeunload is null, the listener registry is empty,   *)
(* and the entries persisted under the session's two storage keys are       *)
(* removed.                                                                 *)
C13_DisconnectResetsAll ==
    [][DisconnectCalled =>
          /\ state' = EmptyState
          /\ ttlInterval' = 0 /\ timers' = <<>>
          /\ dom' = <<>>
          /\ ~onbeforeunload'
          /\ statusListeners' = <<>>
          /\ sessionStorage'.token =
                 (IF Truthy(state.storageTokenKey) THEN "" ELSE sessionStorage.token)
          /\ sessionStorage'.connect =
                 (IF Truthy(state.storageConnectKey) THEN "" ELSE sessionStorage.connect)]_vars

\* disconnect() was called while WAITING with the timer armed, and left
\* nothing behind
C13_Witness ==
    /\ lastOp.op = "disconnectCall"
    /\ StatusOf(lastOp.prev) = WAITING
    /\ lastOp.out.cleared = 1
    /\ TornDown
    /\ sessionStorage = [token |-> "", connect |-> ""]

\* disconnect() has returned and init() has not been called since
Disconnected == state = EmptyState /\ Len(sockets) > 0

(* C14: from the return of disconnect() until the next init(), no timer is  *)
(* armed and none ticks, nothing is emitted on a socket and no handler      *)
(* changes the session state or the timer handle, whatever preceded the     *)
(* disconnect(), several init() calls included.                             *)
C14_QuietAfterDisconnect ==
    [][(Disconnected /\ lastOp'.op /= "init") =>
          /\ lastOp'.op /= "tick"
          /\ lastOp'.out.emitted = <<>>
          /\ lastOp'.out.started = 0
          /\ timers' = <<>> /\ ttlInterval' = 0
          /\ state' = state]_vars

(* C15: a disconnect() call that directly follows a disconnect() call logs  *)
(* no error, sends no leave notification, requests no reload and leaves     *)
(* every part of the session as the first call left it.                     *)
C15_DisconnectIdempotent ==
    [][(lastOp.op = "disconnectCall" /\ DisconnectCalled) =>
          /\ lastOp'.out.errors = 0
          /\ lastOp'.out.beacons = <<>>
          /\ lastOp'.out.reloads = 0
          /\ <<state, ttlInterval, statusListeners, timers, sockets, dom, styleEls,
                onbeforeunload, sessionStorage, reloadPending>>' =
             <<state, ttlInterval, statusListeners, timers, sockets, dom, styleEls,
               onbeforeunload, sessionStorage, reloadPending>>]_vars

\* disconnect() ran with state.socket already null, that is after an earlier
\* disconnect() and with no init() in between, and did nothing
C15_Witness ==
    /\ lastOp.op = "disconnectCall"
    /\ lastOp.socket = 0
    /\ lastOp.out = NoOut
    /\ TornDown

(* C16: the 'disconnect' callback that an explicit disconnect() call        *)
(* provokes re-arms nothing: the call requests no page reload, creates no   *)
(* socket and leaves no timer armed.                                        *)
C16_NoRearmOnExplicitDisconnect ==
    [][DisconnectCalled =>
          /\ lastOp'.out.reloads = 0
          /\ reloadPending' = reloadPending
          /\ Len(sockets') = Len(sockets)
          /\ lastOp'.out.started = 0
          /\ timers' = <<>>]_vars

\* the three triggers of the teardown: the disconnect() handle, a page unload
\* (the reload), a channel error
TeardownTriggers == {"disconnectCall", "reload", "connect_error"}

(* C17: on each of the three triggers (explicit disconnect(), page unload,  *)
(* channel error), in every state in which a session exists, the whole      *)
(* teardown is performed: the leave notification is sent for the current    *)
(* uuid, the channel is closed, no timer stays armed, the overlay is gone,  *)
(* the guard is released, the persisted entries are removed and the session *)
(* state is reset.                                                          *)
C17_TeardownOnEveryTrigger ==
    [][(state.socket /= 0 /\ lastOp'.op \in TeardownTriggers) =>
          /\ (HasUuid(state.queueStatus) /\ Truthy(state.apiUrl)) =>
                 lastOp'.out.beacons = <<state.queueStatus.uuid>>
          /\ sockets' = <<>> \/ ~sockets'[state.socket].connected
          /\ timers' = <<>> /\ ttlInterval' = 0
          /\ dom' = <<>>
          /\ ~onbeforeunload'
          /\ Truthy(state.storageTokenKey) => sessionStorage'.token = ""
          /\ Truthy(state.storageConnectKey) => sessionStorage'.connect = ""
          /\ state' = EmptyState]_vars

\* what the installed onbeforeunload handler does in the current state
UnloadWorld == beforeUnloadHandler(World)

LiveChannels == {s \in DOMAIN sockets : sockets[s].active}

(* C19: a second init() while a session is active is rejected or a no-op:   *)
(* at no time are there two live transport channels.                        *)
C19_SingleLiveChannel == Cardinality(LiveChannels) <= 1

\* init() was called without a wsUrl or with the empty string
InitWithoutUrl == lastOp'.op = "init" /\ lastOp'.data.wsUrl \in {UndefinedWsUrl, ""}

(* C20: an init() call whose wsUrl is missing or empty is rejected before   *)
(* any side effect: no socket is created, no session field and no storage   *)
(* entry is written, no style element and no overlay is added.              *)
C20_InitRejectsMissingUrl ==
    [][InitWithoutUrl =>
          /\ sockets' = sockets
          /\ state' = state
          /\ sessionStorage' = sessionStorage
          /\ styleEls' = styleEls
          /\ dom' = dom]_vars

----------------------------------------------------------------------------
(* Vocabulary of the error-handling and listener claims *)

\* the step is an init() call that was given a wsUrl
InitWithUrl == lastOp'.op = "init" /\ lastOp'.data.wsUrl \notin {UndefinedWsUrl, ""}

(* C21: an init() call that was given its required configuration does not   *)
(* reject, whatever fails while it runs (io() throwing): the failure is      *)
(* handled inside init(), which returns a handle for a socket.               *)
C21_InitHandlesFailures ==
    [][InitWithUrl =>
          /\ ~lastOp'.out.thrown
          /\ state'.socket /= 0]_vars

\* the step applies a status payload that is not null
StatusApplied == lastOp'.op = "status" /\ lastOp'.data /= NullObj

(* C22: a listener that was removed is no longer in the registry and is      *)
(* notified of no later status, and every status that is applied is          *)
(* notified to each listener registered at that time, in order.              *)
C22_RegisteredListenersNotified ==
    [][/\ lastOp'.op = "removeStatusListener" =>
              \A i \in DOMAIN statusListeners' :
                  statusListeners'[i] /= lastOp'.data.listener
       /\ StatusApplied => lastOp'.out.notified = statusListeners]_vars

\* a listener of the registry throws when it is called
SomeListenerThrows == \E i \in DOMAIN statusListeners : statusListeners[i] \in ThrowingListeners

(* C23: when a registered listener throws while a status is notified, the   *)
(* listeners registered after it are notified all the same, nothing is      *)
(* thrown out of the status handler, and the effects of the status are      *)
(* applied: overlay and guard for WAITING, no overlay, no guard and the     *)
(* heartbeat timer for ACTIVE.                                              *)
C23_ListenerIsolation ==
    [][(StatusApplied /\ SomeListenerThrows) =>
          /\ lastOp'.out.notified = statusListeners
          /\ ~lastOp'.out.thrown
          /\ lastOp'.data.status = WAITING => (dom' /= <<>> /\ onbeforeunload')
          /\ lastOp'.data.status = ACTIVE =>
                 /\ dom' = <<>> /\ ~onbeforeunload'
                 /\ \E h \in DOMAIN timers' :
                        timers'[h].kind = "online-queue:check-disconnected"]_vars

\* the callbacks the SDK registers on the socket and on the timer
SdkCallbacks == {"connect", "connect_error", "disconnect", "status", "customEvent", "tick"}

(* C24: no exception leaves a callback of the SDK: whatever a customEvents  *)
(* handler, a status listener or a timer tick throws is caught inside the   *)
(* callback and logged as an error.                                         *)
C24_NoExceptionEscapes ==
    lastOp.op \in SdkCallbacks => ~lastOp.out.thrown

----------------------------------------------------------------------------
(* Claims about the status payloads *)

(* C25: once the current status has a uuid, applying a later status never   *)
(* changes the uuid of the current status, whatever uuid the payload has.   *)
C25_UuidAssignedOnce ==
    [][(lastOp'.op = "status" /\ HasUuid(state.queueStatus)) =>
          /\ HasUuid(state'.queueStatus)
          /\ state'.queueStatus.uuid = state.queueStatus.uuid]_vars

(* C26: when responses are delivered in another order than they were        *)
(* produced, the current status is the newest response received so far: an  *)
(* older response that arrives late does not replace it.                    *)
C26_NewestStatusWins ==
    inflight.newest.seq > 0 => state.queueStatus = inflight.newest.payload

(* C27: the loader style element is injected at most once: once init() has  *)
(* been called, however often, the document holds exactly one style element *)
(* of the SDK.                                                              *)
C27_SingleStyleElement ==
    /\ styleEls <= 1
    /\ Len(sockets) > 0 => styleEls = 1

ActiveNow == StatusOf(state.queueStatus) = ACTIVE
Emitted(event) == {i \in DOMAIN lastOp.out.emitted : lastOp.out.emitted[i].event = event}

(* C28: while the current status is ACTIVE and the socket is connected, the *)
(* one armed timer is the check-disconnected heartbeat at 30000 ms,         *)
(* whatever the position; a tick emits only on a connected socket, a        *)
(* check-disconnected only with the current uuid, and no online-queue:status *)
(* is emitted while ACTIVE.                                                 *)
C28_HeartbeatWhileActive ==
    /\ (ActiveNow /\ SocketConnected /\ Alive) =>
           /\ timers /= <<>>
           /\ \A h \in DOMAIN timers :
                  timers[h] = [kind |-> "online-queue:check-disconnected",
                               interval |-> CHECK_DISCONNECTED_INTERVAL]
    /\ lastOp.op = "tick" =>
           /\ lastOp.out.emitted /= <<>> => SocketConnected
           /\ \A i \in Emitted("online-queue:check-disconnected") :
                  /\ HasUuid(state.queueStatus)
                  /\ lastOp.out.emitted[i].uuid = state.queueStatus.uuid
           /\ ActiveNow => Emitted("online-queue:status") = {}

\* the last handler run was a status handler that went through the EXPIRED branch
ExpiredBranchTaken ==
    /\ lastOp.op = "status"
    /\ \E i \in DOMAIN lastOp.out.alerts : lastOp.out.alerts[i] = "expired"

(* C29: a status handler goes through the EXPIRED branch only for a payload *)
(* whose status is a value of its own, distinct from WAITING, ACTIVE, EMPTY *)
(* and from an absent status; it then leaves no timer armed, shows exactly  *)
(* one notice and requests one page reload.                                 *)
C29_ExpiredStatus ==
    ExpiredBranchTaken =>
        /\ lastOp.data.status \notin {WAITING, ACTIVE, EMPTY, UndefinedStatus}
        /\ timers = <<>> /\ ttlInterval = 0
        /\ lastOp.out.alerts = <<"expired">>
        /\ lastOp.out.reloads = 1 /\ reloadPending

(* C30: a leave notification is sent only with a non-empty apiUrl and a     *)
(* current uuid, and carries that uuid, on every path that sends it         *)
(* (disconnect() and the onbeforeunload handler).                           *)
C30_LeaveNeedsApiUrlAndUuid ==
    [][lastOp'.out.beacons /= <<>> =>
          /\ lastOp'.op \in {"disconnectCall", "reload"}
          /\ Truthy(state.apiUrl)
          /\ HasUuid(state.queueStatus)
          /\ \A i \in DOMAIN lastOp'.out.beacons :
                 lastOp'.out.beacons[i] = state.queueStatus.uuid]_vars

\* each of the two paths has sent a leave notification; here the unload path,
\* while the session had apiUrl and uuid "u1"
C30_Witness ==
    /\ lastOp.op = "reload"
    /\ lastOp.out.beacons = <<"u1">>
    /\ HasUuid(lastOp.prev) /\ lastOp.prev.uuid = "u1"

----------------------------------------------------------------------------
\* C31: whenever a current status exists and a token storage key is configured,
\* the value stored under that key equals the uuid of the current status.
C31_TokenMirrorsUuid ==
    (state.queueStatus /= NullObj /\ Truthy(state.storageTokenKey))
        => sessionStorage.token = state.queueStatus.uuid

----------------------------------------------------------------------------
\* C32: the socket's 'disconnect' handler cancels the periodic timer, and from
\* then on no timer is armed and no online-queue:status or
\* online-queue:check-disconnected message is emitted by any step other than
\* a 'connect' event.
C32_QuietUntilReconnect ==
    [][/\ lastOp'.op = "disconnect" => (timers' = <<>> /\ ttlInterval' = 0)
       /\ (lastOp.op = "disconnect" /\ lastOp'.op /= "connect")
              => (timers' = <<>> /\ lastOp'.out.emitted = <<>>)]_vars

----------------------------------------------------------------------------
\* C33: for every position >= 0 the interval getAdjustedPollInterval returns
\* lies between TTL_INTERVAL (2000) and MAX_TTL_INTERVAL (60000) inclusive, and
\* it is non-decreasing in the position: the next position never gets a
\* shorter interval.
C33_IntervalBoundedMonotone ==
    Calculated =>
        /\ TTL_INTERVAL <= pollResult
        /\ pollResult <= MAX_TTL_INTERVAL
        /\ pollResult <= getAdjustedPollInterval(argPosition + 1)

\* a position beyond the one where the cap is first reached (5800) was
\* computed and got the maximum, which the position before the cap did not
C33_Witness ==
    /\ Calculated
    /\ argPosition = 6000
    /\ pollResult = MAX_TTL_INTERVAL
    /\ getAdjustedPollInterval(5799) < MAX_TTL_INTERVAL

----------------------------------------------------------------------------
----------------------------------------------------------------------------
\* C35: in every reachable state isNavigating is true exactly when the SDK's
\* beforeunload handler is installed, and the guard is idempotent: engaging it
\* while engaged and releasing it while released change nothing.
C35_GuardConsistentIdempotent ==
    /\ [](state.isNavigating = onbeforeunload)
    /\ [][/\ (lastOp'.op = "preventNavigation" /\ state.isNavigating)
              => (state' = state /\ onbeforeunload' = onbeforeunload /\ GuardEngaged')
          /\ (lastOp'.op = "allowNavigation" /\ ~state.isNavigating)
              => (state' = state /\ onbeforeunload' = onbeforeunload /\ GuardReleased')
          /\ lastOp'.op = "preventNavigation" => GuardEngaged'
          /\ lastOp'.op = "allowNavigation" => GuardReleased']_vars

\* a custom handler asked to prevent navigation while the guard of the WAITING
\* status was engaged, and the guard is engaged
C35_Witness ==
    /\ lastOp.op = "preventNavigation"
    /\ StatusOf(state.queueStatus) = WAITING
    /\ OverlayExists
    /\ GuardEngaged

----------------------------------------------------------------------------
(* The raw-WebSocket variant of the class (src/unnamed/part_014).  It has   *)
(* the same overlay, guard and leave helpers, but it owns the reconnection: *)
(* the close callback of a WebSocket calls reconnect, which counts the      *)
(* attempt and schedules setupWebSocket with setTimeout.  In WsSpec the     *)
(* variable state holds the static fields of the variant that are neither   *)
(* the timer handle nor the listeners: the members of its ConnectionState   *)
(* and the two statics reconnectAttempts and isFirstConnection; sockets     *)
(* holds the WebSocket objects with their readyState; timers also holds the *)
(* pending setTimeout callbacks (kind "reconnect"); server counts what the  *)
(* endpoint sees: init() calls and the connections opened by reconnect      *)
(* since a connection was last established.                                 *)

MaxWsSockets == 5     \* WebSocket objects created per page
MaxWsInits == 2       \* init() calls per page

WS_TTL_INTERVAL == 5000
RECONNECTION_ATTEMPTS == 3
RECONNECTION_DELAY == 1000
WS_STORAGE_KEY == "queue_token"

WsEmptyState ==
    [socket |-> 0, popupEl |-> 0, isNavigating |-> FALSE, storageKey |-> "",
     queueStatus |-> NullObj, wsUrl |-> "", apiUrl |-> "", socketConfig |-> FALSE,
     reconnectAttempts |-> 0, isFirstConnection |-> TRUE]

WsConfigs == [wsUrl : {"wss://queue"}, apiUrl : ApiUrls, storageKey : {WS_STORAGE_KEY}]

WsPayloads ==
    {[uuid |-> "u1", position |-> 0, status |-> WAITING],
     [uuid |-> "u1", position |-> 150, status |-> WAITING],
     [uuid |-> "u1", position |-> 0, status |-> ACTIVE]}

\* setTimeout(cb, delay): a pending callback in the event loop
setTimeout(w0, kind, delay) ==
    Only({ [w EXCEPT !.timers = [i \in DOMAIN w.timers \cup {h} |->
                                    IF i = h THEN [kind |-> kind, interval |-> delay]
                                    ELSE w.timers[i]]]
           : <<w, h>> \in {<<x, FreeIn(DOMAIN x.timers)>> : x \in {w0}} })

\* the guard of the variant finds the element it appended
wsInjectStyles(w) == IF w.styleEls > 0 THEN w ELSE [w EXCEPT !.styleEls = @ + 1]

\* the variant has no upper limit on the interval
wsGetAdjustedPollInterval(position) ==
    IF position >= 100 THEN WS_TTL_INTERVAL + (position * 1000) \div 100
    ELSE WS_TTL_INTERVAL

wsStartTtlEmission(w, interval) ==
    setInterval(clearInterval(w), "online-queue:status", interval)

\* the callback startTtlEmission hands to setInterval
wsTtlTick(w0) ==
    Only({ IF w.state.socket /= 0 /\ HasUuid(w.state.queueStatus) /\ w.state.socketConfig
               THEN IF w.sockets[w.state.socket].readyState = "OPEN"
                       THEN log(emit(w, w.state.socket, "online-queue:status",
                                     w.state.queueStatus.uuid), "info")
                       ELSE w
               ELSE w
           : w \in {w0} })

wsReconnect(w0) ==
    Only({ IF w.state.reconnectAttempts >= RECONNECTION_ATTEMPTS
               THEN log(w, "error")
               ELSE setTimeout(log([w EXCEPT !.state.reconnectAttempts = @ + 1], "info"),
                               "reconnect", RECONNECTION_DELAY)
           : w \in {w0} })

\* new WebSocket(...): the object starts in CONNECTING; currentTtlInterval is
\* the value captured by the handlers of this call
wsSetupWebSocket(w0) ==
    Only({ [w EXCEPT !.sockets = Append(@, [readyState |-> "CONNECTING",
                                           currentTtlInterval |->
                                               wsGetAdjustedPollInterval(0)]),
                     !.state.socket = Len(w.sockets) + 1]
           : w \in {w0} })

\* ws.onopen of socket s
wsOnOpen(w0, s) ==
    Only({ wsStartTtlEmission(
               IF w.state.isFirstConnection
               THEN log([emit(w, s, "online-queue:join", "")
                            EXCEPT !.state.isFirstConnection = FALSE], "info")
               ELSE w,
               w.sockets[s].currentTtlInterval)
           : w \in {[log(w0, "info") EXCEPT !.state.reconnectAttempts = 0]} })

\* handleStatusUpdate of the variant, called by ws.onmessage of socket s for an
\* 'online-queue:status' message; an exception of a listener is caught by the
\* try block of onmessage, which logs it
wsHandleStatusUpdate(w0, s, data) ==
    Only({ IF k /= 0
           THEN log([w EXCEPT !.out.notified = SubSeq(w.statusListeners, 1, k)], "error")
           ELSE (IF data.status = ACTIVE
                 THEN toggleNavigation(removePopup(w2), FALSE)
                 ELSE toggleNavigation(
                          createPopup(w2, [kind |-> "default", position |-> data.position]),
                          TRUE))
           : <<w, k, w2>> \in
               {<<x, FirstThrower(x.statusListeners),
                  IF wsGetAdjustedPollInterval(data.position) /= x.sockets[s].currentTtlInterval
                  THEN wsStartTtlEmission(
                           [x EXCEPT !.sockets[s].currentTtlInterval =
                                         wsGetAdjustedPollInterval(data.position),
                                     !.out.notified = x.statusListeners],
                           wsGetAdjustedPollInterval(data.position))
                  ELSE [x EXCEPT !.out.notified = x.statusListeners]>>
                : x \in {[w0 EXCEPT !.state.queueStatus = data,
                                    !.sessionStorage.token =
                                        IF Truthy(w0.state.storageKey)
                                        THEN StoredString(data.uuid) ELSE @]}} })

wsOnError(w, s) == log(w, "error")

\* ws.onclose of socket s
wsOnClose(w0, s) ==
    Only({ wsReconnect(clearInterval(w)) : w \in {log(w0, "warn")} })

wsCleanup(w0) ==
    Only({ [toggleNavigation(removePopup(clearInterval(
                [w EXCEPT !.sessionStorage.token =
                              IF Truthy(w.state.storageKey) THEN "" ELSE @])), FALSE)
               EXCEPT !.state = WsEmptyState, !.statusListeners = <<>>]
           : w \in {w0} })

\* WebSocket.close(): a socket that is connecting or open starts closing; its
\* close event is delivered later
wsClose(w0, s) ==
    Only({ IF w.sockets[s].readyState \in {"CONNECTING", "OPEN"}
               THEN [w EXCEPT !.sockets[s].readyState = "CLOSING"]
               ELSE w
           : w \in {w0} })

wsDisconnect(w0) ==
    Only({ wsCleanup(
               IF w.state.socket /= 0
               THEN [wsClose(w, w.state.socket) EXCEPT !.state.socket = 0]
               ELSE w)
           : w \in {IF w0.state.socket /= 0 /\ HasUuid(w0.state.queueStatus)
                       /\ Truthy(w0.state.apiUrl)
                    THEN IF w0.sockets[w0.state.socket].readyState = "OPEN"
                         THEN sendLeaveRequest(w0) ELSE w0
                    ELSE w0} })

\* init of the variant: it rejects when wsUrl or apiUrl is missing
wsInit(w0, config) ==
    Only({ IF ~Truthy(config.wsUrl) \/ ~Truthy(config.apiUrl)
               THEN [w EXCEPT !.out.thrown = TRUE]
               ELSE wsSetupWebSocket(wsInjectStyles(
                        [w EXCEPT !.state.storageKey = config.storageKey,
                                  !.state.wsUrl = config.wsUrl,
                                  !.state.apiUrl = config.apiUrl,
                                  !.state.socketConfig = TRUE]))
           : w \in {w0} })

WsInit ==
    /\ state = WsEmptyState
    /\ ttlInterval = 0
    /\ statusListeners = <<>>
    /\ timers = <<>>
    /\ sockets = <<>>
    /\ dom = <<>>
    /\ styleEls = 0
    /\ onbeforeunload = FALSE
    /\ reloadPending = FALSE
    /\ lastOp = NoOp
    /\ sessionStorage = [token |-> "", connect |-> ""]
    /\ server = [attempts |-> 0, inits |-> 0]
    /\ inflight = [requests |-> 0, responses |-> <<>>]
    /\ argPosition = 0
    /\ pollResult = -1

WsCallInit(config) ==
    /\ Len(sockets) < MaxWsSockets
    /\ server.inits < MaxWsInits
    /\ Run(wsInit(World, config), "init", Len(sockets) + 1, config)
    /\ server' = [server EXCEPT !.inits = @ + 1]
    /\ UNCHANGED <<inflight, Calc>>

\* the connection of socket s is established
WsOpen(s) ==
    /\ sockets[s].readyState = "CONNECTING"
    /\ Run(wsOnOpen([World EXCEPT !.sockets[s].readyState = "OPEN"], s), "open", s, NullObj)
    /\ server' = [server EXCEPT !.attempts = 0]
    /\ UNCHANGED <<inflight, Calc>>

WsMessage(s, data) ==
    /\ sockets[s].readyState = "OPEN"
    /\ Run(wsHandleStatusUpdate(World, s, data), "status", s, data)
    /\ UNCHANGED <<Env, Calc>>

\* the connection attempt of socket s fails: 'error' precedes 'close'
WsError(s) ==
    /\ sockets[s].readyState = "CONNECTING"
    /\ Run(wsOnError(World, s), "error", s, NullObj)
    /\ UNCHANGED <<Env, Calc>>

\* the close event of socket s: the connection failed, dropped, or was closed
WsClose(s) ==
    /\ sockets[s].readyState /= "CLOSED"
    /\ Run(wsOnClose([World EXCEPT !.sockets[s].readyState = "CLOSED"], s), "close", s,
           [null |-> FALSE, readyState |-> sockets[s].readyState])
    /\ UNCHANGED <<Env, Calc>>

\* a callback scheduled by reconnect runs setupWebSocket
WsTimeout(h) ==
    /\ timers[h].kind = "reconnect"
    /\ Len(sockets) < MaxWsSockets
    /\ Run(wsSetupWebSocket([World EXCEPT !.timers = [i \in DOMAIN timers \ {h} |-> timers[i]]]),
           "timeout", Len(sockets) + 1, NullObj)
    /\ server' = [server EXCEPT !.attempts = @ + 1]
    /\ UNCHANGED <<inflight, Calc>>

WsTick(h) ==
    /\ timers[h].kind = "online-queue:status"
    /\ Run(wsTtlTick(World), "tick", h, NullObj)
    /\ UNCHANGED <<Env, Calc>>

\* the handle init() returned is called
WsCallDisconnect ==
    /\ Len(sockets) > 0
    /\ Run(wsDisconnect(World), "disconnectCall", state.socket, NullObj)
    /\ UNCHANGED <<Env, Calc>>

WsNext ==
    \/ \E config \in WsConfigs : WsCallInit(config)
    \/ \E s \in DOMAIN sockets : WsOpen(s)
    \/ \E s \in DOMAIN sockets, data \in WsPayloads : WsMessage(s, data)
    \/ \E s \in DOMAIN sockets : WsError(s)
    \/ \E s \in DOMAIN sockets : WsClose(s)
    \/ \E h \in DOMAIN timers : WsTimeout(h)
    \/ \E h \in DOMAIN timers : WsTick(h)
    \/ WsCallDisconnect

WsSpec == WsInit /\ [][WsNext]_vars

\* C36: in the raw-WebSocket variant the close callback of a socket that was
\* closed by an explicit disconnect() schedules no reconnection: the callback
\* arms no timer, so no new WebSocket is created for it.
C36_NoReconnectAfterDisconnect ==
    [][(lastOp'.op = "close" /\ sockets[lastOp'.socket].readyState = "CLOSING")
          => /\ DOMAIN timers' \subseteq DOMAIN timers
             /\ Len(sockets') = Len(sockets)
             /\ state'.reconnectAttempts = state.reconnectAttempts]_vars

\* C37: in the raw-WebSocket variant reconnection is bounded: at most
\* RECONNECTION_ATTEMPTS connections are opened by reconnect without one being
\* established in between, an established connection resets the counter to
\* 0, and the close event after the third such attempt schedules nothing.
C37_ReconnectionBounded ==
    /\ [](server.attempts <= RECONNECTION_ATTEMPTS)
    /\ [][/\ lastOp'.op = "open" => state'.reconnectAttempts = 0
          /\ (lastOp'.op = "close" /\ server.attempts >= RECONNECTION_ATTEMPTS)
                => DOMAIN timers' \subseteq DOMAIN timers]_vars

----------------------------------------------------------------------------
\* C38: at most one periodic timer is armed at any time, the one the static
\* handle refers to, so the re-announce timer and the heartbeat timer never
\* run together; a handler that starts a timer while one is armed cancels the
\* armed one.
C38_SingleTimer ==
    /\ [](/\ Cardinality(DOMAIN timers) <= 1
          /\ DOMAIN timers = (IF ttlInterval = 0 THEN {} ELSE {ttlInterval})
          /\ ~(TimersOfKind("online-queue:status") /= {}
                /\ TimersOfKind("online-queue:check-disconnected") /= {}))
    /\ [][(lastOp'.out.started > 0 /\ timers /= <<>>)
              => lastOp'.out.cleared > 0]_vars

\* a 'connect' event arrived while the heartbeat timer of an ACTIVE status was
\* armed: the heartbeat was cancelled and the re-announce timer is the only one
C38_Witness ==
    /\ lastOp.op = "connect"
    /\ StatusOf(state.queueStatus) = ACTIVE
    /\ lastOp.out.cleared = 1 /\ lastOp.out.started = 1
    /\ TimersOfKind("online-queue:status") = {ttlInterval}
    /\ TimersOfKind("online-queue:check-disconnected") = {}

----------------------------------------------------------------------------
\* the events of the socket's connection lifecycle
SocketLifecycle == {"connect", "connect_error", "disconnect"}

\* C39: a WAITING status that is applied (its listeners returning normally)
\* leaves the overlay present and the guard engaged, and no socket lifecycle
\* event ('connect', 'connect_error', 'disconnect') that leaves the status
\* WAITING removes the overlay or releases the guard.
C39_WaitingKeepsOverlay ==
    [][/\ (Applied(WAITING)' /\ ~lastOp'.out.thrown)
              => (OverlayExists' /\ GuardEngaged')
       /\ (/\ lastOp'.op \in SocketLifecycle
           /\ StatusOf(state.queueStatus) = WAITING
           /\ StatusOf(state'.queueStatus) = WAITING)
              => /\ OverlayExists => OverlayExists'
                 /\ GuardEngaged => GuardEngaged']_vars

----------------------------------------------------------------------------
\* the step is a 'disconnect' event of a socket (the transport dropped)
ChannelDropped == lastOp'.op = "disconnect"

\* a token is stored under the token key of the session
TokenStored == Truthy(state.storageTokenKey) /\ sessionStorage.token /= ""

\* the 'disconnect' handler reloads the page exactly when a token is stored
\* under the configured key, and without one it only cancels the timer
ReloadIffTokenStored ==
    ChannelDropped =>
        /\ timers' = <<>> /\ ttlInterval' = 0
        /\ lastOp'.out.reloads = (IF TokenStored THEN 1 ELSE 0)
        /\ reloadPending' = TokenStored
        /\ <<state, statusListeners, dom, styleEls, onbeforeunload, sessionStorage>>' =
           <<state, statusListeners, dom, styleEls, onbeforeunload, sessionStorage>>
        /\ lastOp'.out.emitted = <<>> /\ lastOp'.out.beacons = <<>>

\* C40 as claimed: the 'disconnect' handler reloads the page exactly when a
\* token is stored under the configured key and otherwise only cancels the
\* timer, and whenever a status with a uuid has been applied a channel drop
\* leads to a page reload.
C40_DropAlwaysReloads ==
    [][/\ ReloadIffTokenStored
       /\ (ChannelDropped /\ HasUuid(state.queueStatus)) => reloadPending']_vars

\* C40 amended: the same, the reload after a status being promised only to
\* sessions that were initialised with a non-empty token key.
C40_DropReloadsWithTokenKey ==
    [][/\ ReloadIffTokenStored
       /\ (/\ ChannelDropped
           /\ state.queueStatus /= NullObj
           /\ Truthy(state.storageTokenKey)) => reloadPending']_vars

\* the transport dropped after a status with a uuid had been stored: the timer
\* is cancelled and the reload is requested
C40_Witness ==
    /\ lastOp.op = "disconnect"
    /\ HasUuid(lastOp.prev)
    /\ sessionStorage.token = lastOp.prev.uuid
    /\ lastOp.out.reloads = 1 /\ lastOp.out.cleared = 1
    /\ reloadPending /\ timers = <<>>

====
